---------------------------- MODULE Spec2Model ----------------------------
(***************************************************************************)
(* Model of the embedded dashboard-asset bootstrap of powerpipe            *)
(* (package dashboardassets): Ensure, installedAsstesMatchAppVersion,      *)
(* loadReportAssetVersionFile, extractTarGz and updateAssetVersionFile.    *)
(*                                                                         *)
(* The filesystem is the shared state: the directories and regular files   *)
(* below the filesystem root and the version marker file.  Every Ensure    *)
(* invocation is a process that walks through the statements of Ensure;    *)
(* each blocking system call is one step, so that a crash or a second      *)
(* process can be placed between any two of them.                          *)
(***************************************************************************)
EXTENDS Integers, Sequences, FiniteSets, TLC

VARIABLES
    dirs,      \* set of absolute paths that are directories
    files,     \* function: absolute path of a regular file -> its bytes
    marker,    \* state of the version marker file
    archive,   \* function: program version -> the archive embedded in that build
    pc,        \* per process: position inside Ensure
    ver,       \* per process: app_specific.AppVersion.String() of the running build
    idx,       \* per process: number of tar headers read so far
    seen,      \* per process: the marker file as the version gate found it
    gate,      \* per process: outcome of the version gate of this invocation
    result,    \* per process: what Ensure returned
    status,    \* per process: last text handed to statushooks.SetStatus
    prev       \* version and result of the invocation that ended last

vars == <<dirs, files, marker, archive, pc, ver, idx, seen, gate, result, status, prev>>

fs == <<dirs, files, marker>>

-----------------------------------------------------------------------------
(* Bounds *)

\* longest archive, in entries
MaxEntries == 3

Procs == {"p1", "p2"}

\* version strings a build may report (semver text; "" is the zero string)
Versions == {"", "1", "2"}

\* file payloads, as byte sequences
Payloads == {<<1>>, <<2, 1>>}

-----------------------------------------------------------------------------
(* Paths: filepath.Join(dest, header.Name) *)

\* filepaths.EnsureDashboardAssetsDir(): the destination root
DestRoot == <<"assets">>

\* header names as written in the archive, split at "/"; a directory entry
\* carries the trailing slash of the tar format ("a/" is <<"a", "">>)
DirNames == {<<"a", "">>, <<"a", "b", "">>}
FileNames == {<<"a", "b">>, <<"c">>}

RECURSIVE Clean(_)
\* filepath.Clean on a rooted path: drops empty and "." elements, resolves ".."
Clean(p) ==
    IF p = <<>> THEN <<>>
    ELSE LET front == Clean(SubSeq(p, 1, Len(p) - 1))
             last == p[Len(p)]
         IN  IF last = "" \/ last = "." THEN front
             ELSE IF last = ".."
                  THEN (IF front = <<>> THEN <<>> ELSE SubSeq(front, 1, Len(front) - 1))
                  ELSE Append(front, last)

\* variant: the destination root is left out of the join
Join_noDest(dest, name) == Clean(name)

Join(dest, name) == Clean(dest \o name)

\* the path and all its ancestors below the filesystem root
Prefixes(p) == {SubSeq(p, 1, k) : k \in 1..Len(p)}

Parent(p) == SubSeq(p, 1, Len(p) - 1)

IsDir(d, p) == p = <<>> \/ p \in d

IsFile(f, p) == p \in DOMAIN f

-----------------------------------------------------------------------------
(* The archive *)

Entries ==
    [kind : {"Dir"}, name : DirNames, payload : {<<>>}]
    \cup [kind : {"Reg"}, name : FileNames, payload : Payloads]
    \cup [kind : {"Other"}, name : FileNames, payload : {<<>>}]
    \cup [kind : {"Bad"}, name : {<<>>}, payload : {<<>>}]

EntrySeqs == UNION {[1..n -> Entries] : n \in 0..MaxEntries}

\* what a build embeds under assets.tar.gz: nothing (a packaging defect), bytes
\* that are no gzip stream, or a gzip stream holding a tar of entries; a "Bad"
\* entry is a header the tar reader cannot parse
Archives ==
    {[state |-> "missing", entries |-> <<>>], [state |-> "badgzip", entries |-> <<>>]}
    \cup [state : {"ok"}, entries : EntrySeqs]

-----------------------------------------------------------------------------
(* The marker file: encoding/json on ReportAssetsVersionFile *)

Absent == [kind |-> "absent"]

\* variant: the Version field is not exported to JSON, the record is written empty
Marshal_noVersion(v) == [kind |-> "object", members |-> <<>>]

\* json.Marshal(ReportAssetsVersionFile{Version: v})
Marshal(v) ==
    [kind |-> "object", members |-> <<[key |-> "version", val |-> [t |-> "string", s |-> v]]>>]

\* strings.EqualFold of an object key with the field tag "version"
FoldsToVersion(k) == k \in {"version", "Version", "VERSION"}

RECURSIVE DecodeMembers(_, _)
\* the decoder walks the members in order: a matching key with a string value
\* sets Version, null leaves it, any other value is an UnmarshalTypeError
DecodeMembers(ms, acc) ==
    IF ms = <<>> THEN acc
    ELSE LET m == Head(ms)
             nxt == IF ~FoldsToVersion(m.key) THEN acc
                    ELSE IF m.val.t = "string" THEN [acc EXCEPT !.version = m.val.s]
                    ELSE IF m.val.t = "null" THEN acc
                    ELSE [acc EXCEPT !.err = TRUE]
         IN  DecodeMembers(Tail(ms), nxt)

\* json.Unmarshal(file, &versionFile)
Unmarshal(content) ==
    CASE content.kind = "object" -> DecodeMembers(content.members, [err |-> FALSE, version |-> ""])
      [] content.kind = "null" -> [err |-> FALSE, version |-> ""]
      [] OTHER -> [err |-> TRUE, version |-> ""]

\* loadReportAssetVersionFile: a missing file is an empty record, not an error;
\* a file that cannot be read is unmarshalled from no bytes
loadReportAssetVersionFile(m) ==
    IF m.kind = "absent" THEN [err |-> FALSE, version |-> ""]
    ELSE Unmarshal(m)

\* variant: the comparison is inverted
installedAsstesMatchAppVersion_inverted(m, v) ==
    LET vf == loadReportAssetVersionFile(m)
    IN  IF vf.err THEN FALSE ELSE vf.version # v

\* installedAsstesMatchAppVersion
installedAsstesMatchAppVersion(m, v) ==
    LET vf == loadReportAssetVersionFile(m)
    IN  IF vf.err THEN FALSE ELSE vf.version = v

StrVal(s) == [t |-> "string", s |-> s]

\* marker files a disk may hold when Ensure starts
MarkerStates ==
    {Absent,
     [kind |-> "garbage"],
     [kind |-> "unreadable"],
     [kind |-> "null"],
     [kind |-> "scalar"],
     [kind |-> "object", members |-> <<>>],
     [kind |-> "object", members |-> <<[key |-> "Version", val |-> StrVal("1")]>>],
     [kind |-> "object", members |-> <<[key |-> "version", val |-> [t |-> "number"]]>>],
     [kind |-> "object", members |-> <<[key |-> "other", val |-> StrVal("1")]>>],
     [kind |-> "object", members |-> <<[key |-> "version", val |-> StrVal("2")],
                                       [key |-> "version", val |-> StrVal("1")]>>]}
    \cup {Marshal(v) : v \in Versions}

-----------------------------------------------------------------------------
(* Filesystem calls *)

\* os.MkdirAll(target): the first ancestor (or the target) that is a regular
\* file stops it with ENOTDIR; the ancestors before it have been made
MkdirAllStop(f, target) ==
    LET bad == {k \in 1..Len(target) : IsFile(f, SubSeq(target, 1, k))}
    IN  IF bad = {} THEN Len(target) + 1
        ELSE CHOOSE k \in bad : \A j \in bad : k <= j

\* the directories present after MkdirAll has made levels 1..k-1 of target
MkdirAllUpTo(d, target, k) == d \cup {SubSeq(target, 1, j) : j \in 1..(k - 1)}

\* os.Create(target) succeeds when the parent is a directory and the target is
\* not one: it creates the file or truncates the one that is there
CanCreate(d, f, target) ==
    /\ target # <<>>
    /\ IsDir(d, Parent(target))
    /\ ~IsDir(d, target)

\* the file function with target holding bytes
WithFile(f, target, bytes) ==
    [q \in DOMAIN f \cup {target} |-> IF q = target THEN bytes ELSE f[q]]

\* a write of bytes at offset 0 through a descriptor opened earlier: bytes
\* beyond the written ones stay as another writer left them
Overlay(old, bytes) ==
    IF Len(old) > Len(bytes) THEN bytes \o SubSeq(old, Len(bytes) + 1, Len(old))
    ELSE bytes

-----------------------------------------------------------------------------
(* Ensure, one step per statement that touches the outside world *)

Running(p) == pc[p] \notin {"idle", "done"}

\* Ensure returns r
Return(p, r) ==
    /\ pc' = [pc EXCEPT ![p] = "done"]
    /\ result' = [result EXCEPT ![p] = r]

Entry(p) == archive[ver[p]].entries[idx[p]]

Target(p) == Join(DestRoot, Entry(p).name)

\* a build of version v starts and calls Ensure
Start(p, v) ==
    /\ ~Running(p)
    /\ pc' = [pc EXCEPT ![p] = "gate"]
    /\ ver' = [ver EXCEPT ![p] = v]
    /\ idx' = [idx EXCEPT ![p] = 0]
    /\ seen' = [seen EXCEPT ![p] = Absent]
    /\ gate' = [gate EXCEPT ![p] = "none"]
    /\ result' = [result EXCEPT ![p] = "none"]
    /\ status' = [status EXCEPT ![p] = <<>>]
    /\ prev' = IF pc[p] = "done" THEN [ver |-> ver[p], result |-> result[p]] ELSE prev
    /\ UNCHANGED <<dirs, files, marker, archive>>

\* variant: a marker that does not load fails the bootstrap
Gate_hardFail(p) ==
    /\ pc[p] = "gate"
    /\ seen' = [seen EXCEPT ![p] = marker]
    /\ IF loadReportAssetVersionFile(marker).err
       THEN /\ gate' = [gate EXCEPT ![p] = "stale"]
            /\ Return(p, "errMarker")
       ELSE IF installedAsstesMatchAppVersion(marker, ver[p])
       THEN /\ gate' = [gate EXCEPT ![p] = "match"]
            /\ Return(p, "ok")
       ELSE /\ gate' = [gate EXCEPT ![p] = "stale"]
            /\ pc' = [pc EXCEPT ![p] = "ensureDir"]
            /\ UNCHANGED result
    /\ UNCHANGED <<dirs, files, marker, archive, ver, idx, status, prev>>

\* variant: the gate waits while another process is past its own gate
Gate_locked(p) ==
    /\ pc[p] = "gate"
    /\ \A q \in Procs \ {p} : pc[q] \in {"idle", "gate", "done"}
    /\ seen' = [seen EXCEPT ![p] = marker]
    /\ IF installedAsstesMatchAppVersion(marker, ver[p])
       THEN /\ gate' = [gate EXCEPT ![p] = "match"]
            /\ Return(p, "ok")
       ELSE /\ gate' = [gate EXCEPT ![p] = "stale"]
            /\ pc' = [pc EXCEPT ![p] = "ensureDir"]
            /\ UNCHANGED result
    /\ UNCHANGED <<dirs, files, marker, archive, ver, idx, status, prev>>

\* if installedAsstesMatchAppVersion() { return nil }
Gate(p) ==
    /\ pc[p] = "gate"
    /\ seen' = [seen EXCEPT ![p] = marker]
    /\ IF installedAsstesMatchAppVersion(marker, ver[p])
       THEN /\ gate' = [gate EXCEPT ![p] = "match"]
            /\ Return(p, "ok")
       ELSE /\ gate' = [gate EXCEPT ![p] = "stale"]
            /\ pc' = [pc EXCEPT ![p] = "ensureDir"]
            /\ UNCHANGED result
    /\ UNCHANGED <<dirs, files, marker, archive, ver, idx, status, prev>>

\* reportAssetsPath := filepaths.EnsureDashboardAssetsDir()
EnsureDir(p) ==
    /\ pc[p] = "ensureDir"
    /\ dirs' = dirs \cup Prefixes(DestRoot)
    /\ pc' = [pc EXCEPT ![p] = "open"]
    /\ UNCHANGED <<files, marker, archive, ver, idx, seen, gate, result, status, prev>>

\* staticFS.Open(embeddedAssetArchiveName)
OpenArchive(p) ==
    /\ pc[p] = "open"
    /\ IF archive[ver[p]].state = "missing"
       THEN Return(p, "errOpen")
       ELSE pc' = [pc EXCEPT ![p] = "gunzip"] /\ UNCHANGED result
    /\ UNCHANGED <<dirs, files, marker, archive, ver, idx, seen, gate, status, prev>>

\* gzip.NewReader(gzipStream)
Gunzip(p) ==
    /\ pc[p] = "gunzip"
    /\ IF archive[ver[p]].state = "badgzip"
       THEN Return(p, "errExtract")
       ELSE pc' = [pc EXCEPT ![p] = "next"] /\ UNCHANGED result
    /\ UNCHANGED <<dirs, files, marker, archive, ver, idx, seen, gate, status, prev>>

\* header, err := tarReader.Next(): io.EOF ends the loop without error, a
\* header that does not parse ends it with the error
TarNext(p) ==
    /\ pc[p] = "next"
    /\ LET es == archive[ver[p]].entries
       IN  IF idx[p] = Len(es)
           THEN pc' = [pc EXCEPT ![p] = "update"] /\ UNCHANGED <<idx, result>>
           ELSE /\ idx' = [idx EXCEPT ![p] = idx[p] + 1]
                /\ IF es[idx[p] + 1].kind = "Bad"
                   THEN Return(p, "errExtract")
                   ELSE pc' = [pc EXCEPT ![p] = "entry"] /\ UNCHANGED result
    /\ UNCHANGED <<dirs, files, marker, archive, ver, seen, gate, status, prev>>

\* case tar.TypeDir: os.MkdirAll(target, 0755); fault is the level at which a
\* mkdir is refused by the system (0: none is)
MkdirEntry(p) ==
    /\ pc[p] = "entry"
    /\ Entry(p).kind = "Dir"
    /\ \E fault \in 0..Len(Target(p)) :
         LET stop == MkdirAllStop(files, Target(p))
             refused == fault # 0 /\ fault < stop /\ ~IsDir(dirs, SubSeq(Target(p), 1, fault))
             upTo == IF refused THEN fault ELSE stop
         IN  /\ dirs' = MkdirAllUpTo(dirs, Target(p), upTo)
             /\ IF upTo <= Len(Target(p))
                THEN Return(p, "errExtract")
                ELSE pc' = [pc EXCEPT ![p] = "next"] /\ UNCHANGED result
    /\ UNCHANGED <<files, marker, archive, ver, idx, seen, gate, status, prev>>

\* variant: the file is opened without O_TRUNC
CreateEntry_noTrunc(p) ==
    /\ pc[p] = "entry"
    /\ Entry(p).kind = "Reg"
    /\ status' = [status EXCEPT ![p] = Entry(p).name]
    /\ \E fault \in BOOLEAN :
         IF CanCreate(dirs, files, Target(p)) /\ ~fault
         THEN /\ files' = WithFile(files, Target(p),
                                   IF IsFile(files, Target(p)) THEN files[Target(p)] ELSE <<>>)
              /\ pc' = [pc EXCEPT ![p] = "copy"]
              /\ UNCHANGED result
         ELSE /\ Return(p, "errExtract")
              /\ UNCHANGED files
    /\ UNCHANGED <<dirs, marker, archive, ver, idx, seen, gate, prev>>

\* case tar.TypeReg: statushooks.SetStatus(...); outFile, err := os.Create(target)
CreateEntry(p) ==
    /\ pc[p] = "entry"
    /\ Entry(p).kind = "Reg"
    /\ status' = [status EXCEPT ![p] = Entry(p).name]
    /\ \E fault \in BOOLEAN :
         IF CanCreate(dirs, files, Target(p)) /\ ~fault
         THEN /\ files' = WithFile(files, Target(p), <<>>)
              /\ pc' = [pc EXCEPT ![p] = "copy"]
              /\ UNCHANGED result
         ELSE /\ Return(p, "errExtract")
              /\ UNCHANGED files
    /\ UNCHANGED <<dirs, marker, archive, ver, idx, seen, gate, prev>>

\* variant: a failed copy removes the file it was writing
CopyEntry_cleanup(p) ==
    /\ pc[p] = "copy"
    /\ \E n \in 0..Len(Entry(p).payload) :
         IF n = Len(Entry(p).payload)
         THEN /\ files' = WithFile(files, Target(p), Overlay(files[Target(p)], Entry(p).payload))
              /\ pc' = [pc EXCEPT ![p] = "next"]
              /\ UNCHANGED result
         ELSE /\ files' = [q \in DOMAIN files \ {Target(p)} |-> files[q]]
              /\ Return(p, "errExtract")
    /\ UNCHANGED <<dirs, marker, archive, ver, idx, seen, gate, status, prev>>

\* io.Copy(outFile, tarReader); outFile.Close(): n is the number of payload
\* bytes that reached the file, fewer than all when the copy fails
CopyEntry(p) ==
    /\ pc[p] = "copy"
    /\ \E n \in 0..Len(Entry(p).payload) :
         /\ files' = WithFile(files, Target(p),
                              Overlay(files[Target(p)], SubSeq(Entry(p).payload, 1, n)))
         /\ IF n = Len(Entry(p).payload)
            THEN pc' = [pc EXCEPT ![p] = "next"] /\ UNCHANGED result
            ELSE Return(p, "errExtract")
    /\ UNCHANGED <<dirs, marker, archive, ver, idx, seen, gate, status, prev>>

\* variant: an entry of unknown type is skipped
UnknownEntry_skip(p) ==
    /\ pc[p] = "entry"
    /\ Entry(p).kind \notin {"Dir", "Reg"}
    /\ pc' = [pc EXCEPT ![p] = "next"]
    /\ UNCHANGED <<dirs, files, marker, archive, ver, idx, seen, gate, result, status, prev>>

\* default: return sperr.New("ExtractTarGz: uknown type ...")
UnknownEntry(p) ==
    /\ pc[p] = "entry"
    /\ Entry(p).kind \notin {"Dir", "Reg"}
    /\ Return(p, "errExtract")
    /\ UNCHANGED <<dirs, files, marker, archive, ver, idx, seen, gate, status, prev>>

\* what os.WriteFile leaves at the marker path: the record, the file as it was
\* (the open was refused), or a created or truncated file holding part of it
WriteFileOutcomes == {"written", "refused", "torn"}

\* err = updateAssetVersionFile()
UpdateMarker(p) ==
    /\ pc[p] = "update"
    /\ \E o \in WriteFileOutcomes :
         /\ marker' = CASE o = "written" -> Marshal(ver[p])
                        [] o = "refused" -> marker
                        [] OTHER -> [kind |-> "garbage"]
         /\ Return(p, IF o = "written" THEN "ok" ELSE "errMarker")
    /\ UNCHANGED <<dirs, files, archive, ver, idx, seen, gate, status, prev>>

\* the process is killed between two steps
Crash(p) ==
    /\ Running(p)
    /\ Return(p, "crashed")
    /\ UNCHANGED <<dirs, files, marker, archive, ver, idx, seen, gate, status, prev>>

-----------------------------------------------------------------------------
(* Specifications *)

NoFile == [q \in {} |-> <<>>]

InitProcs ==
    /\ pc = [p \in Procs |-> "idle"]
    /\ ver = [p \in Procs |-> ""]
    /\ idx = [p \in Procs |-> 0]
    /\ seen = [p \in Procs |-> Absent]
    /\ gate = [p \in Procs |-> "none"]
    /\ result = [p \in Procs |-> "none"]
    /\ status = [p \in Procs |-> <<>>]
    /\ prev = [ver |-> "", result |-> "none"]

\* Archives used where the versions, not the archive, are what varies
Tree1 == [state |-> "ok", entries |->
    <<[kind |-> "Dir", name |-> <<"a", "">>, payload |-> <<>>],
      [kind |-> "Reg", name |-> <<"a", "b">>, payload |-> <<1>>]>>]
Tree2 == [state |-> "ok", entries |->
    <<[kind |-> "Dir", name |-> <<"a", "">>, payload |-> <<>>],
      [kind |-> "Reg", name |-> <<"a", "b">>, payload |-> <<2, 1>>]>>]
Odd == [state |-> "ok", entries |->
    <<[kind |-> "Reg", name |-> <<"c">>, payload |-> <<1>>],
      [kind |-> "Other", name |-> <<"a", "b">>, payload |-> <<>>]>>]
SomeArchives == {Tree1, Tree2, Odd}

\* one build, of version "1", with any archive; the disk holds no tree yet and
\* either no marker, a damaged one, or the marker of this or another version
Init ==
    /\ dirs = {}
    /\ files = NoFile
    /\ marker \in {Absent, [kind |-> "garbage"], Marshal("1"), Marshal("2")}
    /\ archive \in [{"1"} -> Archives]
    /\ InitProcs

\* builds of every version, and any marker file on the disk
InitGate ==
    /\ dirs = {}
    /\ files = NoFile
    /\ marker \in MarkerStates
    /\ archive \in [Versions -> SomeArchives]
    /\ InitProcs

\* a fresh machine: no tree, no marker; builds of the versions "1" and "2"
InitFresh ==
    /\ dirs = {}
    /\ files = NoFile
    /\ marker = Absent
    /\ archive \in [{"1", "2"} -> SomeArchives]
    /\ InitProcs

\* a machine with a stale or missing marker and one build
InitConc ==
    /\ dirs = {}
    /\ files = NoFile
    /\ marker \in {Absent, Marshal("2")}
    /\ archive \in [{"1"} -> SomeArchives]
    /\ InitProcs

\* one Ensure at a time: the caller runs at most one instance of this step
Next ==
    \/ \E v \in DOMAIN archive : Start("p1", v)
    \/ Gate("p1")
    \/ EnsureDir("p1")
    \/ OpenArchive("p1")
    \/ Gunzip("p1")
    \/ TarNext("p1")
    \/ MkdirEntry("p1")
    \/ CreateEntry("p1")
    \/ CopyEntry("p1")
    \/ UnknownEntry("p1")
    \/ UpdateMarker("p1")
    \/ Crash("p1")

\* several processes, interleaved at the system calls
NextConc ==
    \/ \E p \in Procs, v \in DOMAIN archive : Start(p, v)
    \/ \E p \in Procs : Gate(p)
    \/ \E p \in Procs : EnsureDir(p)
    \/ \E p \in Procs : OpenArchive(p)
    \/ \E p \in Procs : Gunzip(p)
    \/ \E p \in Procs : TarNext(p)
    \/ \E p \in Procs : MkdirEntry(p)
    \/ \E p \in Procs : CreateEntry(p)
    \/ \E p \in Procs : CopyEntry(p)
    \/ \E p \in Procs : UnknownEntry(p)
    \/ \E p \in Procs : UpdateMarker(p)
    \/ \E p \in Procs : Crash(p)

Spec == Init /\ [][Next]_vars

SpecGate == InitGate /\ [][Next]_vars

SpecFresh == InitFresh /\ [][Next]_vars

SpecConc == InitConc /\ [][NextConc]_vars

(* Sanity: a path is never both a file and a directory, and the parent of    *)
(* every file and directory is a directory                                   *)
TreeOK ==
    /\ dirs \cap DOMAIN files = {}
    /\ \A q \in dirs \cup DOMAIN files : IsDir(dirs, Parent(q))

-----------------------------------------------------------------------------
(* What the claims speak of, stated without the operators of the code *)

NonEmpty(c) == c # ""

\* the place of an archive name under the destination root
ExpectedPath(name) == DestRoot \o SelectSeq(name, NonEmpty)

\* the marker file exists and does not parse as a version record
Corrupt(m) == m.kind # "absent" /\ Unmarshal(m).err

\* the marker file exists, parses, and records version v
Records(m, v) == m.kind # "absent" /\ ~Unmarshal(m).err /\ Unmarshal(m).version = v

EntriesOf(p) == archive[ver[p]].entries

\* the regular-file entries among the first k that are written to path t
RegsAt(es, k, t) == {j \in 1..k : es[j].kind = "Reg" /\ ExpectedPath(es[j].name) = t}

\* the payload of the last of them
LastPayload(es, k, t) ==
    LET js == RegsAt(es, k, t)
    IN  es[CHOOSE j \in js : \A i \in js : i <= j].payload

ProperPrefixes(bytes) == {SubSeq(bytes, 1, n) : n \in 0..(Len(bytes) - 1)}

\* the tree one complete extraction of es builds on an empty disk
FullDirs(es) ==
    Prefixes(DestRoot)
    \cup UNION {Prefixes(ExpectedPath(es[j].name)) : j \in {i \in 1..Len(es) : es[i].kind = "Dir"}}

FullFiles(es) ==
    [t \in {ExpectedPath(es[j].name) : j \in {i \in 1..Len(es) : es[i].kind = "Reg"}}
        |-> LastPayload(es, Len(es), t)]

\* extractTarGz returned nil in this invocation
Extracted(p) ==
    \/ pc[p] = "update"
    \/ pc[p] = "done" /\ gate[p] = "stale" /\ result[p] \in {"ok", "errMarker"}

Others(es) == {j \in 1..Len(es) : es[j].kind = "Other"}

FirstOther(es) == CHOOSE k \in Others(es) : \A j \in Others(es) : k <= j

-----------------------------------------------------------------------------
(* Claims *)

(* C1: for every marker state m and every version v, the empty string        *)
(* included, Ensure goes on to extraction exactly when the marker is         *)
(* absent, or corrupt, or records a version other than v.                    *)
C1_VersionGate ==
    \A p \in Procs :
        gate[p] # "none" =>
            (gate[p] = "stale" <=>
                (seen[p].kind = "absent" \/ Corrupt(seen[p]) \/ ~Records(seen[p], ver[p])))

(* C2: an Ensure that finds a marker recording the current version returns   *)
(* success at once and writes nothing: no directory, no file, no marker.     *)
C2_FastPathWritesNothing ==
    [][\A p \in Procs :
          (pc'[p] # pc[p] /\ pc[p] \in {"idle", "done", "gate"} /\ Records(marker, ver'[p])) =>
              /\ UNCHANGED fs
              /\ pc[p] = "gate" =>
                    /\ pc'[p] = "done"
                    /\ result'[p] \in {"ok", "crashed"}
                    /\ result'[p] = "ok" => gate'[p] = "match"]_vars

C2_Witness ==
    /\ pc["p1"] = "done" /\ gate["p1"] = "match" /\ result["p1"] = "ok"
    /\ prev = [ver |-> ver["p1"], result |-> "ok"]
    /\ Records(marker, ver["p1"])
    /\ DOMAIN files # {}

(* C3: a marker file that does not parse is no error: the gate reports       *)
(* stale and Ensure goes on to extraction, so that whatever it returns it    *)
(* returns after the destination root was made; when it returns success      *)
(* every entry has been read and the marker is a valid record of the         *)
(* current version.                                                          *)
C3_CorruptMarkerRecovery ==
    \A p \in Procs :
        (gate[p] # "none" /\ Corrupt(seen[p])) =>
            /\ gate[p] = "stale"
            /\ (pc[p] = "done" /\ result[p] # "crashed") => DestRoot \in dirs
            /\ (pc[p] = "done" /\ result[p] = "ok") =>
                  /\ idx[p] = Len(EntriesOf(p))
                  /\ marker = Marshal(ver[p])
                  /\ Records(marker, ver[p])

C3_Witness ==
    /\ pc["p1"] = "done" /\ result["p1"] = "ok"
    /\ seen["p1"].kind \in {"garbage", "object"} /\ Corrupt(seen["p1"])
    /\ Records(marker, ver["p1"])
    /\ DOMAIN files # {}

(* C4, as claimed: when extraction fails at entry N+1, every regular file    *)
(* among the first N entries is on disk with its full payload and the        *)
(* marker is as it was before the call.                                      *)
C4_Original ==
    \A p \in Procs :
        (pc[p] = "done" /\ result[p] = "errExtract" /\ idx[p] >= 1) =>
            LET es == EntriesOf(p)
                n == idx[p] - 1
            IN  /\ marker = seen[p]
                /\ \A j \in 1..n :
                      es[j].kind = "Reg" =>
                          LET t == ExpectedPath(es[j].name)
                          IN  t \in DOMAIN files /\ files[t] = LastPayload(es, n, t)

\* the files of the first N entries after a failure at entry N+1
C4_Kept ==
    \A p \in Procs :
        (pc[p] = "done" /\ result[p] = "errExtract" /\ idx[p] >= 1) =>
            LET es == EntriesOf(p)
                n == idx[p] - 1
                failing == es[idx[p]]
            IN  /\ marker = seen[p]
                /\ \A j \in 1..n :
                      es[j].kind = "Reg" =>
                          LET t == ExpectedPath(es[j].name)
                          IN  /\ t \in DOMAIN files
                              /\ \/ files[t] = LastPayload(es, n, t)
                                 \/ /\ failing.kind = "Reg"
                                    /\ ExpectedPath(failing.name) = t
                                    /\ files[t] \in ProperPrefixes(failing.payload)

(* C4, amended: when extraction fails at entry N+1, Ensure returns an error, *)
(* the marker is as it was before the call, nothing is written after the     *)
(* failure, and every regular file among the first N entries is on disk      *)
(* with its full payload, except a file at the path of the failing entry     *)
(* when that entry is a regular file whose copy failed: it holds the bytes   *)
(* copied before the failure.                                                *)
C4_PartialFailure ==
    /\ []C4_Kept
    /\ [][\A p \in Procs :
             (pc[p] = "done" /\ result[p] = "errExtract" /\ pc'[p] = "done") =>
                 UNCHANGED <<dirs, files, marker, idx>>]_vars

\* the second of two entries of one name failed in its copy: the file holds a
\* part of the second payload and no longer the first
C4_Witness ==
    /\ pc["p1"] = "done" /\ result["p1"] = "errExtract" /\ idx["p1"] = 2
    /\ EntriesOf("p1")[1].kind = "Reg" /\ EntriesOf("p1")[2].kind = "Reg"
    /\ EntriesOf("p1")[1].name = EntriesOf("p1")[2].name
    /\ files[ExpectedPath(EntriesOf("p1")[1].name)] # EntriesOf("p1")[1].payload
    /\ files[ExpectedPath(EntriesOf("p1")[1].name)] \in ProperPrefixes(EntriesOf("p1")[2].payload)
    /\ marker = seen["p1"]

(* C5: when the archive holds an entry that is neither a directory nor a     *)
(* regular file, extraction stops at the first such entry with an error:     *)
(* the entry is not skipped, no later entry is read, Ensure does not         *)
(* return success and the marker is not updated.                             *)
C5_UnknownEntryRejected ==
    \A p \in Procs :
        (gate[p] = "stale" /\ Others(EntriesOf(p)) # {}) =>
            LET k == FirstOther(EntriesOf(p))
            IN  /\ idx[p] <= k
                /\ idx[p] = k => pc[p] \in {"entry", "done"}
                /\ pc[p] # "update"
                /\ result[p] \notin {"ok", "errMarker"}
                /\ (pc[p] = "done" /\ idx[p] = k /\ result[p] # "crashed") =>
                      result[p] = "errExtract"
                /\ marker = seen[p]

C5_Witness ==
    /\ pc["p1"] = "done" /\ result["p1"] = "errExtract"
    /\ Others(EntriesOf("p1")) # {}
    /\ idx["p1"] = FirstOther(EntriesOf("p1"))
    /\ Len(EntriesOf("p1")) > idx["p1"]
    /\ EntriesOf("p1")[idx["p1"] + 1].kind = "Reg"

(* C6: after an extraction that returned without error the archive held      *)
(* only directories and regular files, every directory entry and each of     *)
(* its ancestors is a directory under the destination root, and the path     *)
(* of every regular-file entry holds the payload of the last entry of        *)
(* that name.                                                                *)
C6_ExtractionComplete ==
    \A p \in Procs :
        Extracted(p) =>
            LET es == EntriesOf(p)
            IN  \A j \in 1..Len(es) :
                    /\ es[j].kind \in {"Dir", "Reg"}
                    /\ es[j].kind = "Dir" => Prefixes(ExpectedPath(es[j].name)) \subseteq dirs
                    /\ es[j].kind = "Reg" =>
                          /\ ExpectedPath(es[j].name) \in DOMAIN files
                          /\ files[ExpectedPath(es[j].name)]
                                = LastPayload(es, Len(es), ExpectedPath(es[j].name))

C6_Witness ==
    /\ pc["p1"] = "done" /\ result["p1"] = "ok" /\ gate["p1"] = "stale"
    /\ EntriesOf("p1") = <<[kind |-> "Dir", name |-> <<"a", "">>, payload |-> <<>>],
                           [kind |-> "Reg", name |-> <<"a", "b">>, payload |-> <<2, 1>>]>>
    /\ <<"assets", "a">> \in dirs
    /\ files = [t \in {<<"assets", "a", "b">>} |-> <<2, 1>>]

(* C7: the marker changes only in the one step that ends an invocation       *)
(* whose installer read every entry without error; files and directories     *)
(* change only before that step; and after a successful Ensure that took     *)
(* the stale path the marker records the current version.                    *)
C7_MarkerWrittenLast ==
    /\ [][/\ marker' # marker =>
                \E p \in Procs :
                    /\ pc[p] = "update" /\ pc'[p] = "done"
                    /\ idx[p] = Len(EntriesOf(p))
                    /\ result[p] = "none"
                    /\ \A j \in 1..Len(EntriesOf(p)) : EntriesOf(p)[j].kind \in {"Dir", "Reg"}
          /\ (dirs' # dirs \/ files' # files) =>
                \E p \in Procs : pc[p] \in {"ensureDir", "entry", "copy"} /\ pc'[p] # "gate"
          /\ \A p \in Procs :
                (pc[p] = "done" /\ pc'[p] # "done") =>
                    pc'[p] = "gate" /\ idx'[p] = 0 /\ UNCHANGED fs]_vars
    /\ [](\A p \in Procs :
            (pc[p] = "done" /\ result[p] = "ok" /\ gate[p] = "stale") => Records(marker, ver[p]))

C7_Witness ==
    /\ pc["p1"] = "done" /\ result["p1"] = "ok" /\ gate["p1"] = "stale"
    /\ marker # seen["p1"]
    /\ Records(seen["p1"], "2")
    /\ Len(EntriesOf("p1")) = MaxEntries
    /\ DOMAIN files # {}

C9_NoLock ==
    \A p \in Procs :
        /\ (pc[p] = "gate" /\ ~Records(marker, ver[p]) /\ ver[p] # "") =>
              ENABLED (Gate(p) /\ pc'[p] = "ensureDir")
        /\ Running(p) =>
              ENABLED (Gate(p) \/ EnsureDir(p) \/ OpenArchive(p) \/ Gunzip(p) \/ TarNext(p)
                       \/ MkdirEntry(p) \/ CreateEntry(p) \/ CopyEntry(p) \/ UnknownEntry(p)
                       \/ UpdateMarker(p))

\* one process has written the marker of the current version while the other
\* has truncated a file of the archive and not yet copied its payload
C9_Witness ==
    \E p, q \in Procs :
        /\ p # q
        /\ gate[p] = "stale" /\ gate[q] = "stale"
        /\ seen[p] = seen[q]
        /\ pc[p] = "done" /\ result[p] = "ok"
        /\ Records(marker, ver[q])
        /\ pc[q] = "copy"
        /\ files[Target(q)] = <<>>

(* C10: between invocations, whenever the gate would report a match for a    *)
(* version, every regular file of that version's archive is on disk with     *)
(* its full payload.                                                         *)
C10_CacheValid ==
    (\A p \in Procs : ~Running(p)) =>
        \A v \in DOMAIN archive :
            installedAsstesMatchAppVersion(marker, v) =>
                LET es == archive[v].entries
                IN  \A j \in 1..Len(es) :
                        es[j].kind = "Reg" =>
                            /\ ExpectedPath(es[j].name) \in DOMAIN files
                            /\ files[ExpectedPath(es[j].name)]
                                  = LastPayload(es, Len(es), ExpectedPath(es[j].name))

=============================================================================
